---- MODULE Spec2Model ----
(***************************************************************************)
(* Model of the /prioritize pipeline of src/app.py: fetch per client,      *)
(* concurrent per-ticket enrichment through the shared worker pool, merge  *)
(* of caller-submitted tickets, sentiment scoring over word-budget chunks, *)
(* the two sorts, and the flattening that strips the internal fields.      *)
(*                                                                         *)
(* Python values are modelled as follows.  A dict is a TLA+ function over  *)
(* its keys (a missing key is a key outside DOMAIN).  A str is a TLA+      *)
(* string; the str methods the code applies (lower, strip, capitalize,     *)
(* int, float, strptime, split-and-count) are tables over the finite set   *)
(* of strings the model draws its inputs from.  None is the token PyNone.  *)
(* An exception is a record with ok |-> FALSE.                             *)
(***************************************************************************)
EXTENDS Integers, Sequences, FiniteSets, TLC

\* ---------------------------------------------------------------- bounds
\* The most entries a run takes in: the entries of the fetched payloads and
\* the tickets of new_tickets, a ticket counted once for every identifier
\* of cnb_ids it is staged for.
MaxEntries == 2

\* ------------------------------------------------------- program constants
\* ThreadPoolExecutor(max_workers=8)
max_workers == 8
\* chunk_tickets(tickets, max_tokens=3000)
max_tokens == 3000
\* priority_order.get(x["priority"], 4)
UnknownRank == 4
\* the default urgency of generate_summary_and_priority
FallbackUrgency == 6

\* Python's None (JSON null); no string of the input sets equals it.
PyNone == "<None>"

\* dict.get(key, default)
Get(d, k, default) == IF k \in DOMAIN d THEN d[k] ELSE default

\* Truthiness of a str-or-None value: "if x" / "not x".
Truthy(v) == v # "" /\ v # PyNone

\* All sequences over S of length at most n.
SeqsUpTo(S, n) == UNION {[1..k -> S] : k \in 0..n}

\* priority_order
priority_order ==
    [p \in {"Urgent", "High", "Medium", "Low"} |->
        CASE p = "Urgent" -> 0
          [] p = "High" -> 1
          [] p = "Medium" -> 2
          [] p = "Low" -> 3]

\* ------------------------------------------------------------ str methods
\* str.lower() on the line heads the oracle replies are built from.
Lower(s) ==
    CASE s = "Summary:" -> "summary:"
      [] s = "Priority:" -> "priority:"
      [] s = "PRIORITY:" -> "priority:"
      [] s = "Urgency:" -> "urgency:"
      [] s = " Urgency:" -> " urgency:"
      [] OTHER -> s

\* str.strip()
Strip(s) ==
    CASE s = " login fails" -> "login fails"
      [] s = " high" -> "high"
      [] s = " Urgent" -> "Urgent"
      [] s = " critical " -> "critical"
      [] s = " 1" -> "1"
      [] s = " 2" -> "2"
      [] s = " 9" -> "9"
      [] s = " 0" -> "0"
      [] s = " 2/5" -> "2/5"
      [] s = " 8.5 " -> "8.5"
      [] OTHER -> s

\* str.capitalize(): first character upper-cased, the rest lower-cased.
\* None has no such method: the call raises AttributeError.
Capitalize(s) ==
    CASE s = PyNone -> [ok |-> FALSE]
      [] s = "urgent" -> [ok |-> TRUE, val |-> "Urgent"]
      [] s = "URGENT" -> [ok |-> TRUE, val |-> "Urgent"]
      [] s = "high" -> [ok |-> TRUE, val |-> "High"]
      [] s = "low" -> [ok |-> TRUE, val |-> "Low"]
      [] s = "critical" -> [ok |-> TRUE, val |-> "Critical"]
      [] OTHER -> [ok |-> TRUE, val |-> s]

\* int(s): ok with the value, or ValueError.
ParseInt(s) ==
    CASE s = "1" -> [ok |-> TRUE, val |-> 1]
      [] s = "2" -> [ok |-> TRUE, val |-> 2]
      [] s = "5" -> [ok |-> TRUE, val |-> 5]
      [] s = "9" -> [ok |-> TRUE, val |-> 9]
      [] s = "0" -> [ok |-> TRUE, val |-> 0]
      [] s = "-3" -> [ok |-> TRUE, val |-> -3]
      [] OTHER -> [ok |-> FALSE]

\* float(s), in halves (val2 = 2 * the float): ok with the value, or
\* ValueError.  "nan" parses, to a value round() later refuses.
ParseFloat(s) ==
    CASE s = "7" -> [ok |-> TRUE, nan |-> FALSE, val2 |-> 14]
      [] s = "8" -> [ok |-> TRUE, nan |-> FALSE, val2 |-> 16]
      [] s = "8.5" -> [ok |-> TRUE, nan |-> FALSE, val2 |-> 17]
      [] s = "3" -> [ok |-> TRUE, nan |-> FALSE, val2 |-> 6]
      [] s = "15" -> [ok |-> TRUE, nan |-> FALSE, val2 |-> 30]
      [] s = "-2" -> [ok |-> TRUE, nan |-> FALSE, val2 |-> -4]
      [] s = "nan" -> [ok |-> TRUE, nan |-> TRUE, val2 |-> 0]
      [] OTHER -> [ok |-> FALSE]

\* datetime.min
datetime_min == <<1, 1, 1, 0, 0>>

\* datetime.strptime(s, "%d.%m.%y %H:%M") as <<year, month, day, hour,
\* minute>>, or ValueError.
Strptime(s) ==
    CASE s = "15.01.24 09:00" -> [ok |-> TRUE, val |-> <<2024, 1, 15, 9, 0>>]
      [] s = "02.03.24 09:00" -> [ok |-> TRUE, val |-> <<2024, 3, 2, 9, 0>>]
      [] s = "02.03.24 08:30" -> [ok |-> TRUE, val |-> <<2024, 3, 2, 8, 30>>]
      [] s = "31.12.99 23:59" -> [ok |-> TRUE, val |-> <<1999, 12, 31, 23, 59>>]
      [] OTHER -> [ok |-> FALSE]

\* len(s.split()): the number of whitespace-separated words of a text.
Words(s) ==
    CASE s = "" -> 0
      [] s = "down" -> 1
      [] s = "slow" -> 1
      [] s = "login" -> 1
      [] s = "site is down" -> 3
      [] s = "pages load slowly" -> 3
      [] s = "cannot log in" -> 3
      [] s = "<log of 1600 words>" -> 1600
      [] s = "<dump of 3001 words>" -> 3001
      [] OTHER -> 1

\* ------------------------------------------------ the enrichment oracle
\* A line of the oracle's reply text, cut at its first colon: head is the
\* text up to and including that colon, rest what follows it.
\* line.lower().startswith("summary:") holds exactly when Lower(head) is
\* "summary:", and line.split(":", 1)[1] is rest.
Line(h, r) == [head |-> h, rest |-> r]

\* What openai.chat.completions.create can do for one enrichment call:
\* raise, or return a text of lines.
EnrichReplies ==
    { [ok |-> FALSE],
      [ok |-> TRUE,
       lines |-> << Line("Summary:", " login fails"), Line("Priority:", " high"),
                    Line("Urgency:", " 2") >>],
      [ok |-> TRUE,
       lines |-> << Line("PRIORITY:", " critical "), Line(" Urgency:", " 1"),
                    Line("Urgency:", " 2/5"), Line("Urgency:", " 9") >>] }

Triple(s, p, u) == [summary |-> s, priority |-> p, urgency |-> u]

\* The body of "for line in output.splitlines()": one line's effect on
\* (summary, priority, urgency).
ParseLine(line, acc) ==
    LET h == Lower(line.head)
        v == Strip(line.rest)
    IN  IF h = "summary:" THEN [acc EXCEPT !.summary = v]
        ELSE IF h = "priority:" THEN
            LET p == Capitalize(v).val
            IN  IF p \in DOMAIN priority_order THEN [acc EXCEPT !.priority = p]
                ELSE acc
        ELSE IF h = "urgency:" THEN
            LET u == ParseInt(v)
            IN  [acc EXCEPT !.urgency = IF u.ok THEN u.val ELSE FallbackUrgency]
        ELSE acc

RECURSIVE ParseLines(_, _)
ParseLines(lines, acc) ==
    IF lines = <<>> THEN acc
    ELSE ParseLines(Tail(lines), ParseLine(Head(lines), acc))

\* Mutant of generate_summary_and_priority: a failed call leaves the
\* defaults of line 56.
generate_summary_and_priority_Defaults(ticket, reply) ==
    IF reply.ok THEN ParseLines(reply.lines, Triple("N/A", "Low", FallbackUrgency))
    ELSE Triple("N/A", "Low", FallbackUrgency)

\* generate_summary_and_priority(ticket) when the oracle answers reply.
\* The ticket only enters the prompt.
generate_summary_and_priority(ticket, reply) ==
    IF reply.ok THEN ParseLines(reply.lines, Triple("N/A", "Low", FallbackUrgency))
    ELSE Triple("Could not summarize", "Low", FallbackUrgency)

\* ------------------------------------------------------------- chunking
\* tokens = len(f"{ticket['title']} {ticket['content']}".split())
Tokens(ticket) == Words(ticket.title) + Words(ticket.content)

\* Mutant of ChunkLoop: the ticket that overflows the budget still goes
\* into the chunk it closes.
RECURSIVE ChunkLoopClosingLate(_, _, _, _, _)
ChunkLoopClosingLate(tickets, i, chunks, chunk, token_count) ==
    IF i > Len(tickets) THEN
        IF chunk # <<>> THEN Append(chunks, chunk) ELSE chunks
    ELSE
        LET tokens == Tokens(tickets[i])
        IN  IF token_count + tokens > max_tokens THEN
                ChunkLoopClosingLate(tickets, i + 1,
                                     Append(chunks, Append(chunk, tickets[i])), <<>>, 0)
            ELSE
                ChunkLoopClosingLate(tickets, i + 1, chunks, Append(chunk, tickets[i]),
                                     token_count + tokens)

\* The loop of chunk_tickets over the tickets from position i on, with the
\* chunks closed so far, the open chunk and its token count.
RECURSIVE ChunkLoop(_, _, _, _, _)
ChunkLoop(tickets, i, chunks, chunk, token_count) ==
    IF i > Len(tickets) THEN
        IF chunk # <<>> THEN Append(chunks, chunk) ELSE chunks
    ELSE
        LET tokens == Tokens(tickets[i])
        IN  IF token_count + tokens > max_tokens THEN
                ChunkLoop(tickets, i + 1, Append(chunks, chunk), <<tickets[i]>>, tokens)
            ELSE
                ChunkLoop(tickets, i + 1, chunks, Append(chunk, tickets[i]),
                          token_count + tokens)

chunk_tickets(tickets) == ChunkLoop(tickets, 1, <<>>, <<>>, 0)

\* ------------------------------------------------------ sentiment score
\* What the oracle can do for one sentiment call: raise, or return a text.
SentReplies ==
    { [ok |-> FALSE], [ok |-> TRUE, text |-> " 8.5 "], [ok |-> TRUE, text |-> "15"],
      [ok |-> TRUE, text |-> "n/a"] }

\* float(response.choices[0].message.content.strip())
ChunkScore(reply) == IF reply.ok THEN ParseFloat(Strip(reply.text)) ELSE [ok |-> FALSE]

\* The number of oracle calls the loop makes before it ends or raises.
RECURSIVE CallsMade(_, _)
CallsMade(replies, i) ==
    IF i > Len(replies) THEN Len(replies)
    ELSE IF ChunkScore(replies[i]).ok THEN CallsMade(replies, i + 1)
    ELSE i

RECURSIVE SumScores2(_, _)
SumScores2(replies, i) ==
    IF i > Len(replies) THEN 0
    ELSE ChunkScore(replies[i]).val2 + SumScores2(replies, i + 1)

\* int(round(num2 / (2 * n))) for n > 0: Python rounds halves to even.
RoundMean(num2, n) ==
    LET d == 2 * n
        q == num2 \div d
        r == num2 - q * d
    IN  IF 2 * r < d THEN q
        ELSE IF 2 * r > d THEN q + 1
        ELSE IF q % 2 = 0 THEN q ELSE q + 1

\* Mutant of get_sentiment_score: the mean of the chunks that were scored.
get_sentiment_score_MeanOfScored(client_id, tickets, replies) ==
    LET scored == SelectSeq(replies, LAMBDA r : ChunkScore(r).ok)
    IN  IF scored = << >> THEN 0
        ELSE RoundMean(SumScores2(scored, 1), Len(scored))

\* get_sentiment_score(client_id, tickets) when the oracle answers the i-th
\* chunk with replies[i]: any exception (a failed call, a non-numeric text,
\* the division by zero of an empty chunk list, round() of nan) returns 0.
get_sentiment_score(client_id, tickets, replies) ==
    LET n == Len(replies)
    IN  IF CallsMade(replies, 1) < n THEN 0
        ELSE IF \E i \in 1..n : ~ChunkScore(replies[i]).ok THEN 0
        ELSE IF n = 0 THEN 0
        ELSE IF \E i \in 1..n : ChunkScore(replies[i]).nan THEN 0
        ELSE RoundMean(SumScores2(replies, 1), n)

\* --------------------------------------------------------------- sorting
\* created_dt of sort_key: strptime of a non-empty created_at, datetime.min
\* of an empty one; not ok when strptime raises.
CreatedDt(x) ==
    IF Truthy(Get(x, "created_at", PyNone)) THEN Strptime(x.created_at)
    ELSE [ok |-> TRUE, val |-> datetime_min]

\* priority_order.get(x["priority"], 4)
PriorityRank(x) ==
    IF x.priority \in DOMAIN priority_order THEN priority_order[x.priority]
    ELSE UnknownRank

\* Mutant of sort_key: urgency ahead of the priority rank.
sort_key_UrgencyFirst(x) == << x.urgency, PriorityRank(x) >> \o CreatedDt(x).val

\* sort_key(x) as one tuple: (priority rank, urgency) followed by the
\* fields of created_dt.
sort_key(x) == << PriorityRank(x), x.urgency >> \o CreatedDt(x).val

\* Python's tuple comparison a < b.
RECURSIVE TupleLess(_, _)
TupleLess(a, b) ==
    IF a = <<>> \/ b = <<>> THEN a = <<>> /\ b # <<>>
    ELSE IF Head(a) # Head(b) THEN Head(a) < Head(b)
    ELSE TupleLess(Tail(a), Tail(b))

\* Mutant of InsertTicket: an element goes ahead of the elements already
\* placed whose key equals its own.
RECURSIVE InsertTicketBeforeEqual(_, _)
InsertTicketBeforeEqual(x, sorted) ==
    IF sorted = <<>> THEN <<x>>
    ELSE IF ~TupleLess(sort_key(Head(sorted)), sort_key(x)) THEN <<x>> \o sorted
    ELSE <<Head(sorted)>> \o InsertTicketBeforeEqual(x, Tail(sorted))

\* list.sort is stable: an element goes behind every element already placed
\* whose key is not greater than its own.
RECURSIVE InsertTicket(_, _)
InsertTicket(x, sorted) ==
    IF sorted = <<>> THEN <<x>>
    ELSE IF TupleLess(sort_key(x), sort_key(Head(sorted))) THEN <<x>> \o sorted
    ELSE <<Head(sorted)>> \o InsertTicket(x, Tail(sorted))

RECURSIVE SortFrom(_, _, _)
SortFrom(tickets, i, sorted) ==
    IF i > Len(tickets) THEN sorted
    ELSE SortFrom(tickets, i + 1, InsertTicket(tickets[i], sorted))

\* client_tickets.sort(key=sort_key)
SortTickets(tickets) == SortFrom(tickets, 1, <<>>)

\* Mutant of BlockKey: the score itself, which sorts the blocks ascending.
BlockKeyAscending(b) == b.sentiment_score

\* key of client_blocks.sort: -x["sentiment_score"]
BlockKey(b) == 0 - b.sentiment_score

\* client_blocks.sort(key=lambda x: -x["sentiment_score"]), as the positions
\* of the blocks in their new order.  The sort is stable: a block goes
\* behind every block already placed whose key is not greater than its own.
RECURSIVE InsertBlock(_, _, _)
InsertBlock(blocks, i, order) ==
    IF order = <<>> THEN <<i>>
    ELSE IF BlockKey(blocks[i]) < BlockKey(blocks[Head(order)]) THEN <<i>> \o order
    ELSE <<Head(order)>> \o InsertBlock(blocks, i, Tail(order))

RECURSIVE SortBlocksFrom(_, _, _)
SortBlocksFrom(blocks, i, order) ==
    IF i > Len(blocks) THEN order
    ELSE SortBlocksFrom(blocks, i + 1, InsertBlock(blocks, i, order))

SortBlocks(blocks) == SortBlocksFrom(blocks, 1, <<>>)

\* ---------------------------------------------------------------- inputs
ClientIds == {"A", "B"}

\* Ticket records of the external source.
FetchedRecords ==
    { [cnb_support_ticket_number |-> "T1", cnb_support_ticket_title |-> "down",
       cnb_support_ticket_content |-> "site is down",
       cnb_created_datetime |-> "15.01.24 09:00",
       cnb_support_ticket_priority |-> "High"],
      [cnb_support_ticket_number |-> "T2", cnb_support_ticket_title |-> "slow",
       cnb_support_ticket_content |-> "<log of 1600 words>",
       cnb_created_datetime |-> "", cnb_support_ticket_priority |-> "urgent"],
      [cnb_support_ticket_number |-> "T3", cnb_support_ticket_title |-> "login"],
      [cnb_support_ticket_number |-> "T4", cnb_support_ticket_title |-> "login",
       cnb_support_ticket_content |-> "cannot log in",
       cnb_created_datetime |-> "2024-03-02 08:30"] }

\* An entry of the fetched JSON object: a ticket record (a dict) under some
\* key, or a scalar such as the client's title.
DictEntry(key, d) == [key |-> key, dict |-> d]
ScalarEntry(key, v) == [key |-> key, scalar |-> v]
IsDict(entry) == "dict" \in DOMAIN entry

\* The JSON objects the source can return with at most n entries, in
\* document order: ticket records under distinct keys and at most one
\* cnb_title.
Payloads(n) ==
    LET title == [cnb_title |-> "Acme"]
        IsTitle(x) == "cnb_title" \in DOMAIN x
        entry(x, i) == IF IsTitle(x) THEN ScalarEntry("cnb_title", x.cnb_title)
                       ELSE DictEntry(ToString(i), x)
        shapes == {sh \in SeqsUpTo(FetchedRecords \cup {title}, n) :
                     Cardinality({i \in 1..Len(sh) : IsTitle(sh[i])}) <= 1}
    IN  {[i \in 1..Len(sh) |-> entry(sh[i], i)] : sh \in shapes}

\* What requests.post can do: raise, or return a text: a body that is JSON
\* (of value data) or not, behind "<pre>" or not, before "</pre>" or not.
Responses(n) ==
    { [ok |-> FALSE] }
    \cup { [ok |-> TRUE, pre |-> TRUE, post |-> TRUE, json |-> FALSE] }
    \cup { [ok |-> TRUE, pre |-> TRUE, post |-> FALSE, json |-> TRUE, data |-> << >>] }
    \cup { [ok |-> TRUE, pre |-> w, post |-> w, json |-> TRUE, data |-> d] :
             w \in BOOLEAN, d \in Payloads(n) }

\* Caller-submitted tickets (the objects of new_tickets).
NewTickets ==
    { [client_id |-> "A", title |-> "down", content |-> "<dump of 3001 words>",
       created_at |-> "02.03.24 09:00", priority |-> "high"],
      [client_id |-> "A", ticket_number |-> "T1", title |-> "login",
       content |-> "cannot log in", created_at |-> ""],
      [client_id |-> "B", title |-> "slow", content |-> "",
       created_at |-> "02.03.24 08:30", priority |-> "URGENT"],
      [client_id |-> "B", title |-> "login", content |-> "cannot log in",
       priority |-> PyNone],
      [title |-> "down", content |-> "site is down"] }

\* The request bodies: cnb_ids and new_tickets.
Requests ==
    { [cnb_ids |-> c, new_tickets |-> n] :
        c \in SeqsUpTo(ClientIds, Cardinality(ClientIds)),
        n \in SeqsUpTo(NewTickets, MaxEntries) }

\* How often the tickets of a request are staged: once for every position
\* of cnb_ids that names their client, and never less than once.
RECURSIVE Load(_, _)
Load(req, j) ==
    IF j > Len(req.new_tickets) THEN 0
    ELSE LET cid == Get(req.new_tickets[j], "client_id", PyNone)
             n == Cardinality({i \in 1..Len(req.cnb_ids) : req.cnb_ids[i] = cid})
         IN  (IF n > 1 THEN n ELSE 1) + Load(req, j + 1)

\* ----------------------------------------------------------------- state
VARIABLES
    pc,               \* where prioritize() stands
    status,           \* HTTP status of the response, 0 while there is none
    cnb_ids,          \* req.get("cnb_ids", [])
    new_tickets,      \* req.get("new_tickets", [])
    new_tickets_map,  \* caller-submitted tickets by client_id
    k,                \* position in cnb_ids of the "for cnb_id" loop
    data,             \* the parsed JSON object: its entries in document order
    client_name,
    valid_tickets,
    client_tickets,
    new_prepared,
    summaries,
    new_summaries,
    client_blocks,
    final_output,
    tasks,            \* the pool: arguments of the submitted calls, in order
    started,          \* the pool: how many calls a worker has taken up
    completed,        \* the pool: finished calls with their argument, what
                      \* the oracle did and their result, in completion order
    history,          \* history: per appended block, its position in
                      \* cnb_ids, its tickets before the sort and its score
    sent_log,         \* history: per call of get_sentiment_score, the
                      \* position in cnb_ids, the sizes of the chunks the
                      \* oracle was asked about, whether one of these calls
                      \* failed or was answered by no number, and the score
                      \* returned
    emit_log,         \* history: per emitted ticket, its block and what it
                      \* was before the internal fields were popped
    fetch_log,        \* history: per iteration of the loop over cnb_ids,
                      \* whether the fetch gave a parsed JSON object
    budget            \* what is left of MaxEntries for the payloads to come

vars == << pc, status, cnb_ids, new_tickets, new_tickets_map, k, data, client_name,
           valid_tickets, client_tickets, new_prepared, summaries, new_summaries,
           client_blocks, final_output, tasks, started, completed,
           history, sent_log, emit_log, fetch_log, budget >>

request == << cnb_ids, new_tickets, new_tickets_map, budget >>
pool == << tasks, started, completed >>
locals == << data, client_name, valid_tickets, client_tickets, new_prepared, summaries,
             new_summaries >>
outputs == << client_blocks, final_output, history, sent_log, emit_log >>
results == << outputs, fetch_log >>

Init ==
    /\ \E req \in Requests :
        /\ Load(req, 1) <= MaxEntries
        /\ cnb_ids = req.cnb_ids
        /\ new_tickets = req.new_tickets
        /\ budget = MaxEntries - Load(req, 1)
    /\ pc = "recv"
    /\ status = 0
    /\ new_tickets_map = << >>
    /\ k = 0
    /\ data = << >>
    /\ client_name = ""
    /\ valid_tickets = << >>
    /\ client_tickets = << >>
    /\ new_prepared = << >>
    /\ summaries = << >>
    /\ new_summaries = << >>
    /\ client_blocks = << >>
    /\ final_output = << >>
    /\ tasks = << >>
    /\ started = 0
    /\ completed = << >>
    /\ history = << >>
    /\ sent_log = << >>
    /\ emit_log = << >>
    /\ fetch_log = << >>

\* --------------------------------------------------------------- actions
\* The end of one iteration of the "for cnb_id in cnb_ids" loop, by
\* "continue" or by falling off the loop body: on to the next identifier,
\* or to the code behind the loop.  The locals the next iteration assigns
\* before it reads them are cleared.
NextClient ==
    /\ pc' = IF k + 1 > Len(cnb_ids) THEN "rank" ELSE "fetch"
    /\ k' = k + 1
    /\ data' = << >>
    /\ client_name' = ""
    /\ valid_tickets' = << >>
    /\ client_tickets' = << >>
    /\ new_prepared' = << >>
    /\ summaries' = << >>
    /\ new_summaries' = << >>
    /\ tasks' = << >>
    /\ started' = 0
    /\ completed' = << >>

\* Lines 125-136: an empty cnb_ids is answered 400; otherwise the
\* caller-submitted tickets that carry a client_id are grouped by it.
Receive ==
    /\ pc = "recv"
    /\ IF cnb_ids = << >> THEN
          /\ status' = 400
          /\ pc' = "done"
          /\ UNCHANGED << new_tickets_map, k >>
       ELSE
          /\ new_tickets_map' =
                [cid \in {Get(new_tickets[i], "client_id", PyNone) :
                            i \in {j \in 1..Len(new_tickets) :
                                     Truthy(Get(new_tickets[j], "client_id", PyNone))}} |->
                    SelectSeq(new_tickets,
                              LAMBDA nt : Get(nt, "client_id", PyNone) = cid)]
          /\ pc' = "fetch"
          /\ k' = 1
          /\ UNCHANGED status
    /\ UNCHANGED << cnb_ids, new_tickets, budget, locals, pool, results >>

\* Lines 146-150: json.loads of the text, taken out of "<pre>" ... "</pre>"
\* when it stands between the two; markup left in the text is no JSON.
ParsedBody(response) ==
    LET unwrapped == response.pre /\ response.post
        markup == ~unwrapped /\ (response.pre \/ response.post)
    IN  IF response.json /\ ~markup THEN [ok |-> TRUE, data |-> response.data]
        ELSE [ok |-> FALSE]

\* data.get("cnb_title", "Unknown")
ClientName(obj) ==
    IF \E i \in 1..Len(obj) : obj[i].key = "cnb_title"
    THEN LET i == CHOOSE j \in 1..Len(obj) : obj[j].key = "cnb_title"
         IN  obj[i].scalar
    ELSE "Unknown"

\* Lines 162-177: the staging ticket of one record of the payload.
Staged(item) ==
    [ticket_number |-> Get(item, "cnb_support_ticket_number", PyNone),
     title |-> Get(item, "cnb_support_ticket_title", ""),
     content |-> Get(item, "cnb_support_ticket_content", ""),
     created_at |-> Get(item, "cnb_created_datetime", ""),
     priority |-> Get(item, "cnb_support_ticket_priority", "Low")]

\* Mutant of ValidTickets: a record is kept for its ticket number alone.
ValidTicketsByNumber(obj) ==
    LET kept == SelectSeq(obj,
                    LAMBDA e : /\ IsDict(e)
                               /\ Truthy(Staged(e.dict).ticket_number))
    IN  [i \in 1..Len(kept) |-> Staged(kept[i].dict)]

\* Lines 158-177: the records that are dicts and have a ticket number and a
\* content, staged, in the order of data.items().
ValidTickets(obj) ==
    LET kept == SelectSeq(obj,
                    LAMBDA e : /\ IsDict(e)
                               /\ Truthy(Staged(e.dict).ticket_number)
                               /\ Truthy(Staged(e.dict).content))
    IN  [i \in 1..Len(kept) |-> Staged(kept[i].dict)]

\* Mutant of Fetch: after a failed request or a body that is no JSON the
\* iteration goes on as if the source had returned an empty object.
FetchGoesOn ==
    /\ pc = "fetch"
    /\ \E response \in Responses(budget) :
        LET got == ~(~response.ok \/ ~ParsedBody(response).ok)
            parsed == IF got THEN ParsedBody(response).data ELSE << >>
        IN  /\ fetch_log' = Append(fetch_log, got)
            /\ budget' = budget - Len(parsed)
            /\ data' = parsed
            /\ client_name' = ClientName(parsed)
            /\ valid_tickets' = ValidTickets(parsed)
            /\ client_tickets' = << >>
            /\ tasks' = ValidTickets(parsed)
            /\ started' = 0
            /\ completed' = << >>
            /\ pc' = "map1"
            /\ UNCHANGED << status, cnb_ids, new_tickets, new_tickets_map, k,
                            new_prepared, summaries, new_summaries, outputs >>

\* Lines 141-179: the fetch for cnb_ids[k].  A failed request (caught at
\* line 239) or a body that is no JSON (line 153) ends the iteration;
\* otherwise the valid records are handed to the pool.
Fetch ==
    /\ pc = "fetch"
    /\ \E response \in Responses(budget) :
        IF ~response.ok \/ ~ParsedBody(response).ok THEN
            /\ fetch_log' = Append(fetch_log, FALSE)
            /\ NextClient
            /\ UNCHANGED << status, request, outputs >>
        ELSE
            LET parsed == ParsedBody(response).data
            IN  /\ fetch_log' = Append(fetch_log, TRUE)
                /\ budget' = budget - Len(parsed)
                /\ data' = parsed
                /\ client_name' = ClientName(parsed)
                /\ valid_tickets' = ValidTickets(parsed)
                /\ client_tickets' = << >>
                /\ tasks' = ValidTickets(parsed)
                /\ started' = 0
                /\ completed' = << >>
                /\ pc' = "map1"
                /\ UNCHANGED << status, cnb_ids, new_tickets, new_tickets_map, k,
                                new_prepared, summaries,
                                new_summaries, outputs >>

\* A worker of the pool takes up the next submitted call (the pool's queue
\* is first-in first-out); at most max_workers calls run at once.
WorkerStart ==
    /\ pc \in {"map1", "map2"}
    /\ started < Len(tasks)
    /\ started - Len(completed) < max_workers
    /\ started' = started + 1
    /\ UNCHANGED << pc, status, request, k, locals, tasks, completed, results >>

\* A running call generate_summary_and_priority(tasks[i]) returns, whatever
\* the oracle did; the calls finish in any order.
WorkerFinish ==
    /\ pc \in {"map1", "map2"}
    /\ \E i \in 1..started :
        /\ \A j \in 1..Len(completed) : completed[j].task # i
        /\ \E reply \in EnrichReplies :
            completed' = Append(completed,
                [task |-> i, arg |-> tasks[i], reply |-> reply,
                 result |-> generate_summary_and_priority(tasks[i], reply)])
    /\ UNCHANGED << pc, status, request, k, locals, tasks, started, results >>

\* The result of the call submitted i-th.
ResultOf(done, i) ==
    LET j == CHOOSE j \in 1..Len(done) : done[j].task = i
    IN  done[j].result

\* Mutant of MapResults: the results in the order the calls finished in.
MapResultsAsCompleted(items, done) == [i \in 1..Len(items) |-> done[i].result]

\* list(executor.map(fn, items)): the results in the order of the items.
MapResults(items, done) == [i \in 1..Len(items) |-> ResultOf(done, i)]

\* Line 179: executor.map has every result.
GatherFetched ==
    /\ pc = "map1"
    /\ Len(completed) = Len(tasks)
    /\ summaries' = MapResults(valid_tickets, completed)
    /\ pc' = "zip1"
    /\ UNCHANGED << status, request, k, data, client_name, valid_tickets, client_tickets,
                    new_prepared, new_summaries, pool, results >>

\* Mutant of FinalPriorityFetched: any declared priority is kept.
FinalPriorityFetchedAsDeclared(t, resolved_priority) ==
    IF Truthy(t.priority) THEN t.priority ELSE resolved_priority

\* Line 182: the declared priority when priority_order knows it, the
\* oracle's otherwise.
FinalPriorityFetched(t, resolved_priority) ==
    IF t.priority \in DOMAIN priority_order THEN t.priority ELSE resolved_priority

\* Lines 183-193 and 209-219: the enriched ticket.
Enriched(t, cnb_id, name, summary, final_priority, urgency) ==
    [ticket_number |-> t.ticket_number,
     client_id |-> cnb_id,
     client_name |-> name,
     title |-> t.title,
     summary |-> summary,
     priority |-> final_priority,
     urgency |-> urgency,
     created_at |-> t.created_at,
     content |-> t.content]

\* f"NEW-{n}"
FormatNew(n) ==
    CASE n = 1 -> "NEW-1" [] n = 2 -> "NEW-2" [] n = 3 -> "NEW-3"
      [] n = 4 -> "NEW-4" [] n = 5 -> "NEW-5" [] n = 6 -> "NEW-6"
      [] n = 7 -> "NEW-7" [] n = 8 -> "NEW-8" [] n = 9 -> "NEW-9"

\* Mutant of NewTicketNumber: the position among the caller-submitted
\* tickets alone.
NewTicketNumberByPosition(n_client_tickets, idx) == FormatNew(idx + 1)

\* Line 197: the number of a caller-submitted ticket that brings none, idx
\* being its 0-based position in new_input.
NewTicketNumber(n_client_tickets, idx) == FormatNew(n_client_tickets + idx + 1)

\* Lines 196-202: the staging ticket of one caller-submitted ticket.
Prepared(nt, n_client_tickets, idx) ==
    [ticket_number |-> Get(nt, "ticket_number", NewTicketNumber(n_client_tickets, idx)),
     title |-> Get(nt, "title", ""),
     content |-> Get(nt, "content", ""),
     created_at |-> Get(nt, "created_at", ""),
     priority |-> Get(nt, "priority", "")]

\* Lines 181-204: the fetched tickets are zipped with their results, the
\* caller-submitted tickets of this client are staged and handed to the pool.
MergeFetched ==
    /\ pc = "zip1"
    /\ LET merged ==
              [i \in 1..Len(valid_tickets) |->
                  Enriched(valid_tickets[i], cnb_ids[k], client_name,
                           summaries[i].summary,
                           FinalPriorityFetched(valid_tickets[i], summaries[i].priority),
                           summaries[i].urgency)]
           new_input == Get(new_tickets_map, cnb_ids[k], << >>)
           prepared == [i \in 1..Len(new_input) |->
                           Prepared(new_input[i], Len(merged), i - 1)]
       IN  /\ client_tickets' = merged
           /\ new_prepared' = prepared
           /\ tasks' = prepared
    /\ started' = 0
    /\ completed' = << >>
    /\ pc' = "map2"
    /\ UNCHANGED << status, request, k, data, client_name, valid_tickets, summaries,
                    new_summaries, results >>

\* Line 204: executor.map has every result.
GatherNew ==
    /\ pc = "map2"
    /\ Len(completed) = Len(tasks)
    /\ new_summaries' = MapResults(new_prepared, completed)
    /\ pc' = "zip2"
    /\ UNCHANGED << status, request, k, data, client_name, valid_tickets,
                    client_tickets, new_prepared, summaries, pool,
                    results >>

\* Mutant of FinalPriorityNew: the declared priority is compared as it is.
FinalPriorityNewAsWritten(nt, resolved_priority) ==
    IF nt.priority = PyNone THEN [ok |-> FALSE]
    ELSE IF nt.priority \in DOMAIN priority_order
         THEN [ok |-> TRUE, val |-> nt.priority]
    ELSE [ok |-> TRUE, val |-> resolved_priority]

\* Lines 207-208: the declared priority, capitalized, when priority_order
\* knows it, the oracle's otherwise.  Not ok when capitalize() raises.
FinalPriorityNew(nt, resolved_priority) ==
    LET input_priority == Capitalize(nt.priority)
    IN  IF ~input_priority.ok THEN [ok |-> FALSE]
        ELSE IF input_priority.val \in DOMAIN priority_order
             THEN [ok |-> TRUE, val |-> input_priority.val]
        ELSE [ok |-> TRUE, val |-> resolved_priority]

\* Lines 206-219: the caller-submitted tickets are zipped with their
\* results and appended.  An exception (caught at line 239) ends the
\* iteration without a block.
MergeNew ==
    /\ pc = "zip2"
    /\ LET final(i) == FinalPriorityNew(new_prepared[i], new_summaries[i].priority)
       IN  IF \E i \in 1..Len(new_prepared) : ~final(i).ok THEN
               /\ NextClient
               /\ UNCHANGED << status, request, results >>
           ELSE
               /\ client_tickets' = client_tickets \o
                     [i \in 1..Len(new_prepared) |->
                         Enriched(new_prepared[i], cnb_ids[k], client_name,
                                  new_summaries[i].summary, final(i).val,
                                  new_summaries[i].urgency)]
               /\ tasks' = << >>
               /\ started' = 0
               /\ completed' = << >>
               /\ pc' = "score"
               /\ UNCHANGED << status, request, k, data, client_name, valid_tickets,
                               new_prepared, summaries, new_summaries, results >>

\* Lines 223-237: the tickets are sorted and the block is appended with
\* its score.  A created_at that strptime refuses raises out of the sort
\* (caught at line 239): the iteration ends without a block.
SortAndAppend(score) ==
    IF \E i \in 1..Len(client_tickets) : ~CreatedDt(client_tickets[i]).ok THEN
        UNCHANGED << client_blocks, history >>
    ELSE
        /\ client_blocks' = Append(client_blocks,
              [sentiment_score |-> score,
               client_id |-> cnb_ids[k],
               tickets |-> SortTickets(client_tickets)])
        /\ history' = Append(history,
              [k |-> k, merged |-> client_tickets, score |-> score])

\* Lines 221-241: the sentiment score of the merged tickets is asked of the
\* oracle chunk by chunk in a request for more than one client and is 0
\* otherwise; then the sort and the append.
ScoreSortAppend ==
    /\ pc = "score"
    /\ IF Len(cnb_ids) > 1 THEN
          LET chunks == chunk_tickets(client_tickets)
          IN  \E replies \in [1..Len(chunks) -> SentReplies] :
                LET score == get_sentiment_score(cnb_ids[k], client_tickets, replies)
                IN  /\ sent_log' = Append(sent_log,
                          [k |-> k,
                           sizes |-> [i \in 1..CallsMade(replies, 1) |-> Len(chunks[i])],
                           failed |-> \E i \in 1..CallsMade(replies, 1) :
                                         ~ChunkScore(replies[i]).ok,
                           score |-> score])
                    /\ SortAndAppend(score)
       ELSE
          /\ UNCHANGED sent_log
          /\ SortAndAppend(0)
    /\ NextClient
    /\ UNCHANGED << status, request, final_output, emit_log, fetch_log >>

\* Mutant of Emitted: the score is attached in every request.
EmittedWithScore(t, multi, score) ==
    [f \in DOMAIN t \ {"content", "urgency", "created_at"} |-> t[f]]
        @@ ("sentiment_score" :> score)

\* Mutant of Emitted: created_at is not popped.
EmittedKeepsCreatedAt(t, multi, score) ==
    LET kept == DOMAIN t \ {"content", "urgency"}
        out == [f \in kept |-> t[f]]
    IN  IF multi THEN out @@ ("sentiment_score" :> score) ELSE out

\* Lines 249-254: the ticket as emitted: with the block's score in a
\* request for more than one client, without the internal fields.
Emitted(t, multi, score) ==
    LET kept == DOMAIN t \ {"content", "urgency", "created_at"}
        out == [f \in kept |-> t[f]]
    IN  IF multi THEN out @@ ("sentiment_score" :> score) ELSE out

\* Lines 246-255: the tickets of the blocks from position j on, block by
\* block.
RECURSIVE Flatten(_, _, _)
Flatten(blocks, j, multi) ==
    IF j > Len(blocks) THEN << >>
    ELSE [i \in 1..Len(blocks[j].tickets) |->
             Emitted(blocks[j].tickets[i], multi, blocks[j].sentiment_score)]
         \o Flatten(blocks, j + 1, multi)

\* What Flatten emits, as it was before the pops, with the position its
\* block had in client_blocks before the client-level sort.
RECURSIVE FlattenLog(_, _, _)
FlattenLog(blocks, order, j) ==
    IF j > Len(blocks) THEN << >>
    ELSE [i \in 1..Len(blocks[j].tickets) |->
             [block |-> order[j], ticket |-> blocks[j].tickets[i]]]
         \o FlattenLog(blocks, order, j + 1)

\* Lines 243-257: the blocks are sorted in a request for more than one
\* client, then flattened.  The pops change the tickets of the blocks too:
\* they are the same objects.
Rank ==
    /\ pc = "rank"
    /\ LET multi == Len(cnb_ids) > 1
           order == IF multi THEN SortBlocks(client_blocks)
                    ELSE [j \in 1..Len(client_blocks) |-> j]
           ranked == [j \in 1..Len(order) |-> client_blocks[order[j]]]
       IN  /\ final_output' = Flatten(ranked, 1, multi)
           /\ emit_log' = FlattenLog(ranked, order, 1)
           /\ client_blocks' =
                 [j \in 1..Len(ranked) |->
                     [ranked[j] EXCEPT !.tickets =
                         [i \in 1..Len(ranked[j].tickets) |->
                             Emitted(ranked[j].tickets[i], multi,
                                     ranked[j].sentiment_score)]]]
    /\ status' = 200
    /\ pc' = "done"
    /\ UNCHANGED << request, k, locals, pool, history, sent_log, fetch_log >>

Next ==
    \/ Receive
    \/ Fetch
    \/ WorkerStart
    \/ WorkerFinish
    \/ GatherFetched
    \/ MergeFetched
    \/ GatherNew
    \/ MergeNew
    \/ ScoreSortAppend
    \/ Rank

Spec == Init /\ [][Next]_vars

\* ================================================================ claims
Priorities == {"Urgent", "High", "Medium", "Low"}

\* The tickets a run holds with their internal fields: those of the block
\* being built and those emitted, as they were before the pops.
EnrichedTickets ==
    {client_tickets[i] : i \in 1..Len(client_tickets)}
    \cup {emit_log[i].ticket : i \in 1..Len(emit_log)}

\* C1: the urgency stored on every enriched ticket, and used as its sort
\* key, is an integer in 1..6, whatever the oracle answered.
C1_UrgencyInRange == \A t \in EnrichedTickets : t.urgency \in 1..6

\* C2: the priority of every ticket of the final output (and of every
\* enriched ticket before it) is one of Urgent, High, Medium, Low, so that
\* no sort key holds the rank 4 of an unrecognized priority.
C2_PriorityRecognized ==
    /\ \A i \in 1..Len(final_output) : final_output[i].priority \in Priorities
    /\ \A t \in EnrichedTickets :
        /\ t.priority \in Priorities
        /\ PriorityRank(t) # 4

\* A run has emitted a fetched ticket whose declared priority "urgent" is
\* not recognized and for which the oracle suggested the unknown "critical".
C2_Witness ==
    /\ pc = "done"
    /\ \E i \in 1..Len(final_output) :
        /\ final_output[i].ticket_number = "T2"
        /\ final_output[i].summary = "N/A"
        /\ final_output[i].priority = "Low"

\* C3: the score get_sentiment_score returned, and every sentiment_score of
\* the output, is an integer in 0..10.
C3_SentimentInRange ==
    /\ \A c \in 1..Len(sent_log) : sent_log[c].score \in 0..10
    /\ \A i \in 1..Len(final_output) :
        "sentiment_score" \in DOMAIN final_output[i]
            => final_output[i].sentiment_score \in 0..10

\* C4: when executor.map has returned, there are as many triples as
\* staging tickets, and the i-th triple is the result of the call made for
\* the i-th ticket, whatever the order the calls finished in.
C4_MapKeepsInputOrder ==
    LET Paired(items, triples) ==
            /\ Len(triples) = Len(items)
            /\ \A i \in 1..Len(items) :
                \E j \in 1..Len(completed) :
                    /\ completed[j].task = i
                    /\ completed[j].arg = items[i]
                    /\ completed[j].result = triples[i]
    IN  /\ pc = "zip1" => Paired(valid_tickets, summaries)
        /\ pc = "zip2" => Paired(new_prepared, new_summaries)

\* executor.map has returned for two tickets whose calls finished in the
\* reverse of the input order with different results.
C4_Witness ==
    /\ pc \in {"zip1", "zip2"}
    /\ Len(completed) = 2
    /\ completed[1].task = 2
    /\ completed[1].result # completed[2].result

\* The rank of a priority in the ticket-level sort.
RankOf(p) ==
    CASE p = "Urgent" -> 0 [] p = "High" -> 1 [] p = "Medium" -> 2 [] p = "Low" -> 3
      [] OTHER -> 4

\* (priority_rank, urgency, created_at_parsed) of an enriched ticket.
KeyOf(t) == << RankOf(t.priority), t.urgency >> \o CreatedDt(t).val

\* C5: of two consecutive emitted tickets of one block, the key
\* (priority_rank, urgency, created_at_parsed) of the first is less than or
\* equal to the key of the second.
C5_BlockAscending ==
    \A i \in 1..Len(emit_log) - 1 :
        emit_log[i].block = emit_log[i + 1].block
            => ~TupleLess(KeyOf(emit_log[i + 1].ticket), KeyOf(emit_log[i].ticket))

\* A block was emitted whose two tickets the sort had to exchange.
C5_Witness ==
    /\ pc = "done"
    /\ Len(emit_log) = 2
    /\ emit_log[1].block = emit_log[2].block
    /\ emit_log[1].ticket = history[emit_log[1].block].merged[2]
    /\ TupleLess(KeyOf(emit_log[1].ticket), KeyOf(emit_log[2].ticket))

\* A created_at that is not empty and that strptime accepts.
Parsable(created_at) == Truthy(created_at) /\ Strptime(created_at).ok

\* C6: when the tickets of a client are sorted, a ticket whose created_at
\* is empty or does not parse still goes into the client's block, ahead of
\* every ticket of the same priority rank and urgency whose created_at
\* parses.
C6_UnparsableRankedFirst ==
    [][ pc = "score" =>
          /\ Len(client_blocks') = Len(client_blocks) + 1
          /\ LET out == client_blocks'[Len(client_blocks')].tickets
             IN  /\ \A i \in 1..Len(client_tickets) :
                       \E j \in 1..Len(out) : out[j] = client_tickets[i]
                 /\ \A i, j \in 1..Len(out) :
                       ( /\ ~Parsable(out[i].created_at)
                         /\ Parsable(out[j].created_at)
                         /\ RankOf(out[i].priority) = RankOf(out[j].priority)
                         /\ out[i].urgency = out[j].urgency ) => i < j
      ]_vars

\* The emitted tickets of the block appended j-th, as they were before the
\* pops, in output order.
BlockLog(j) ==
    LET es == SelectSeq(emit_log, LAMBDA e : e.block = j)
    IN  [i \in 1..Len(es) |-> es[i].ticket]

\* (priority, urgency, created_at) of an enriched ticket.
RawKey(t) == << t.priority, t.urgency, t.created_at >>

\* (title, content) of the fetched records that are kept, in payload order,
\* then of the caller-submitted tickets of client cid, in the caller's order.
MergeOrder(cid) ==
    LET fetched == SelectSeq(data,
                       LAMBDA e : /\ IsDict(e)
                                  /\ Truthy(Get(e.dict, "cnb_support_ticket_number", ""))
                                  /\ Truthy(Get(e.dict, "cnb_support_ticket_content", "")))
        caller == SelectSeq(new_tickets, LAMBDA nt : Get(nt, "client_id", PyNone) = cid)
    IN  [i \in 1..Len(fetched) |->
            << Get(fetched[i].dict, "cnb_support_ticket_title", ""),
               fetched[i].dict.cnb_support_ticket_content >>]
        \o [i \in 1..Len(caller) |-> << Get(caller[i], "title", ""),
                                         Get(caller[i], "content", "") >>]

\* C7: both sorts are stable.  Before the sort the tickets of a client are
\* its fetched tickets in payload order followed by its caller-submitted
\* tickets in the caller's order; the emitted tickets of a block that have
\* the same (priority, urgency, created_at) stand in that order; and blocks
\* of equal sentiment_score are emitted in cnb_ids order.
C7_SortsAreStable ==
    /\ pc = "score" =>
          [i \in 1..Len(client_tickets) |->
              << client_tickets[i].title, client_tickets[i].content >>]
            = MergeOrder(cnb_ids[k])
    /\ pc = "done" =>
          /\ \A j \in 1..Len(history) :
                \A t \in {history[j].merged[i] : i \in 1..Len(history[j].merged)} :
                    SelectSeq(BlockLog(j), LAMBDA x : RawKey(x) = RawKey(t))
                      = SelectSeq(history[j].merged, LAMBDA x : RawKey(x) = RawKey(t))
          /\ \A a, b \in 1..Len(emit_log) :
                ( /\ a < b
                  /\ history[emit_log[a].block].score = history[emit_log[b].block].score )
                    => history[emit_log[a].block].k <= history[emit_log[b].block].k

\* A request for two clients has emitted a block of two different tickets
\* of identical (priority, urgency, created_at), a fetched one and a
\* caller-submitted one, while the two blocks had the same score.
C7_Witness ==
    /\ pc = "done"
    /\ Len(cnb_ids) = 2
    /\ Len(client_blocks) = 2
    /\ client_blocks[1].sentiment_score = client_blocks[2].sentiment_score
    /\ client_blocks[1].client_id # client_blocks[2].client_id
    /\ Len(emit_log) = 2
    /\ emit_log[1].block = emit_log[2].block
    /\ RawKey(emit_log[1].ticket) = RawKey(emit_log[2].ticket)
    /\ emit_log[1].ticket.ticket_number = "T2"
    /\ emit_log[2].ticket.title = "login"

C9_SentimentOnlyForSeveralClients ==
    /\ Len(cnb_ids) = 1 =>
          /\ sent_log = << >>
          /\ \A j \in 1..Len(client_blocks) : client_blocks[j].sentiment_score = 0
          /\ \A i \in 1..Len(final_output) :
                "sentiment_score" \notin DOMAIN final_output[i]
    /\ (Len(cnb_ids) > 1 /\ pc = "done") =>
          \A i \in 1..Len(final_output) :
              /\ "sentiment_score" \in DOMAIN final_output[i]
              /\ final_output[i].sentiment_score = history[emit_log[i].block].score
              /\ \E c \in 1..Len(sent_log) :
                    /\ sent_log[c].k = history[emit_log[i].block].k
                    /\ Len(sent_log[c].sizes) >= 1

\* A request for two clients has emitted a ticket of each, with the
\* different scores of their blocks.
C9_Witness ==
    /\ pc = "done"
    /\ Len(cnb_ids) > 1
    /\ Len(final_output) = 2
    /\ emit_log[1].block # emit_log[2].block
    /\ final_output[1].sentiment_score = 15
    /\ final_output[2].sentiment_score = 8

\* The caller-submitted tickets of the client the loop stands at.
NewInput == SelectSeq(new_tickets, LAMBDA nt : Get(nt, "client_id", PyNone) = cnb_ids[k])

\* C10 as stated: a caller-submitted ticket without ticket_number gets
\* NEW-<n>, n its 1-based position among the client's caller-submitted
\* tickets, however many tickets were fetched for the client.
C10_NumberedByPosition ==
    pc \in {"map2", "zip2"} =>
        \A i \in 1..Len(new_prepared) :
            "ticket_number" \notin DOMAIN NewInput[i]
                => new_prepared[i].ticket_number = FormatNew(i)

\* C10 as amended: a caller-submitted ticket without ticket_number gets
\* NEW-<n>, n the number of the client's fetched tickets that were kept
\* plus its 1-based position among the client's caller-submitted tickets;
\* it keeps that number when it is merged.
C10_NumberedAfterFetched ==
    /\ pc \in {"map2", "zip2"} =>
          /\ Len(new_prepared) = Len(NewInput)
          /\ \A i \in 1..Len(new_prepared) :
                "ticket_number" \notin DOMAIN NewInput[i]
                    => new_prepared[i].ticket_number = FormatNew(Len(valid_tickets) + i)
    /\ pc = "score" =>
          \A i \in 1..Len(NewInput) :
              "ticket_number" \notin DOMAIN NewInput[i]
                  => client_tickets[Len(valid_tickets) + i].ticket_number
                       = FormatNew(Len(valid_tickets) + i)

\* A caller-submitted ticket without ticket_number was staged behind one
\* fetched ticket and numbered NEW-2.
C10_Witness ==
    /\ pc = "map2"
    /\ Len(valid_tickets) = 1
    /\ Len(new_prepared) = 1
    /\ "ticket_number" \notin DOMAIN NewInput[1]
    /\ new_prepared[1].ticket_number = "NEW-2"

\* C11: no two tickets of the emitted list that have the same client_id
\* have the same ticket_number.
C11_NumbersUniquePerClient ==
    \A i, j \in 1..Len(final_output) :
        ( /\ i # j
          /\ final_output[i].client_id = final_output[j].client_id )
            => final_output[i].ticket_number # final_output[j].ticket_number

\* C12: a ticket whose content is missing or empty is dropped before
\* enrichment, fetched or caller-submitted: no call of
\* generate_summary_and_priority is handed to the pool for it and it is not
\* emitted.
C12_EmptyContentDropped ==
    /\ \A i \in 1..Len(tasks) : Truthy(tasks[i].content)
    /\ \A i \in 1..Len(emit_log) : Truthy(emit_log[i].ticket.content)

\* What the oracle did for the call submitted i-th.
ReplyOf(i) ==
    LET j == CHOOSE j \in 1..Len(completed) : completed[j].task = i
    IN  completed[j].reply

\* What a failed enrichment call leaves of a ticket of declared priority
\* declared: the fallback summary and urgency, and the declared priority
\* when it is one of the four, Low otherwise.
AbsorbedFailure(t, declared) ==
    /\ t.summary = "Could not summarize"
    /\ t.urgency = 6
    /\ t.priority = IF declared \in Priorities THEN declared ELSE "Low"

\* How often the ticket t stands in the sequence s.
Count(s, t) == Cardinality({i \in 1..Len(s) : s[i] = t})

\* C13: a failed enrichment call is absorbed by that call.  When
\* executor.map has returned, the triple of every call is what its own
\* ticket and its own oracle reply give, that of a failed call being
\* ("Could not summarize", Low, 6); the ticket of a failed call is merged
\* with that summary, urgency 6 and its declared priority when valid (Low
\* otherwise), every other ticket with the summary and urgency of its own
\* call; and every merged ticket of an appended block is emitted.
C13_EnrichFailureAbsorbed ==
    /\ pc = "zip1" =>
          \A i \in 1..Len(valid_tickets) :
              /\ summaries[i] = generate_summary_and_priority(valid_tickets[i], ReplyOf(i))
              /\ ~ReplyOf(i).ok => summaries[i] = Triple("Could not summarize", "Low", 6)
    /\ pc = "zip2" =>
          \A i \in 1..Len(new_prepared) :
              /\ new_summaries[i] = generate_summary_and_priority(new_prepared[i], ReplyOf(i))
              /\ ~ReplyOf(i).ok => new_summaries[i] = Triple("Could not summarize", "Low", 6)
    /\ pc \in {"map2", "zip2", "score"} =>
          \A i \in 1..Len(valid_tickets) :
              /\ client_tickets[i].summary = summaries[i].summary
              /\ client_tickets[i].urgency = summaries[i].urgency
              /\ summaries[i].summary = "Could not summarize"
                    => AbsorbedFailure(client_tickets[i], valid_tickets[i].priority)
    /\ pc = "score" =>
          \A i \in 1..Len(new_prepared) :
              LET t == client_tickets[Len(valid_tickets) + i]
              IN  /\ t.summary = new_summaries[i].summary
                  /\ t.urgency = new_summaries[i].urgency
                  /\ new_summaries[i].summary = "Could not summarize"
                        => AbsorbedFailure(t, Capitalize(new_prepared[i].priority).val)
    /\ pc = "done" =>
          \A j \in 1..Len(history) :
              \A i \in 1..Len(history[j].merged) :
                  Count(BlockLog(j), history[j].merged[i])
                    = Count(history[j].merged, history[j].merged[i])

\* A block of two fetched tickets has been emitted: T1, whose call failed,
\* with the fallback summary and its declared priority High, behind T2,
\* whose call succeeded, with the oracle's summary.
C13_Witness ==
    /\ pc = "done"
    /\ Len(emit_log) = 2
    /\ emit_log[1].block = emit_log[2].block
    /\ emit_log[1].ticket.ticket_number = "T2"
    /\ emit_log[1].ticket.summary = "login fails"
    /\ emit_log[1].ticket.urgency = 2
    /\ emit_log[2].ticket.ticket_number = "T1"
    /\ AbsorbedFailure(emit_log[2].ticket, "High")
    /\ final_output[2].summary = "Could not summarize"

\* C14: when the sentiment call of one chunk fails or is answered by no
\* number, get_sentiment_score returns 0 for the client, whatever the other
\* chunks were scored; and the block of that client, when it is appended,
\* has the score 0 and all its tickets are emitted with sentiment_score 0.
C14_SentimentFailureGivesZero ==
    /\ \A c \in 1..Len(sent_log) : sent_log[c].failed => sent_log[c].score = 0
    /\ pc = "done" =>
          \A j \in 1..Len(history) :
              (\E c \in 1..Len(sent_log) :
                    sent_log[c].k = history[j].k /\ sent_log[c].failed)
                => /\ history[j].score = 0
                   /\ Len(BlockLog(j)) = Len(history[j].merged)
                   /\ \A i \in 1..Len(emit_log) :
                         emit_log[i].block = j
                            => /\ "sentiment_score" \in DOMAIN final_output[i]
                               /\ final_output[i].sentiment_score = 0

\* Two chunks of one ticket each were asked about for a client: the first
\* was scored, the second was not, and both tickets of the client are
\* emitted with sentiment_score 0.
C14_Witness ==
    /\ pc = "done"
    /\ Len(cnb_ids) > 1
    /\ Len(final_output) = 2
    /\ emit_log[1].block = emit_log[2].block
    /\ final_output[1].sentiment_score = 0
    /\ final_output[2].sentiment_score = 0
    /\ \E c \in 1..Len(sent_log) :
          /\ sent_log[c].k = history[emit_log[1].block].k
          /\ sent_log[c].sizes = << 1, 1 >>
          /\ sent_log[c].failed

\* C15, taken per occurrence of an identifier in cnb_ids: when the fetch or
\* the JSON parse fails for cnb_ids[k], the step that fails changes nothing
\* but the position of the loop, which goes on to the next identifier (the
\* blocks built so far and the caller-submitted tickets of every client are
\* as before); every identifier is fetched, in cnb_ids order; and no block
\* and no emitted ticket comes from an occurrence whose fetch failed, not
\* even the caller-submitted tickets of that client.
C15_FailedFetchSkipsClient ==
    /\ [] ( /\ pc = "fetch" => Len(fetch_log) = k - 1
            /\ status = 200 => Len(fetch_log) = Len(cnb_ids)
            /\ \A j \in 1..Len(history) : fetch_log[history[j].k]
            /\ \A i \in 1..Len(emit_log) :
                  /\ fetch_log[history[emit_log[i].block].k]
                  /\ final_output[i].client_id = cnb_ids[history[emit_log[i].block].k] )
    /\ [][ ( /\ Len(fetch_log') = Len(fetch_log) + 1
             /\ ~fetch_log'[Len(fetch_log')] )
           => /\ k' = k + 1
              /\ pc' = IF k' > Len(cnb_ids) THEN "rank" ELSE "fetch"
              /\ UNCHANGED << cnb_ids, new_tickets, new_tickets_map, outputs >>
       ]_vars

\* A request for A and B with a caller-submitted ticket of A: the fetch for
\* A failed, the fetch for B gave one ticket, and that ticket alone is
\* emitted.
C15_Witness ==
    /\ pc = "done"
    /\ cnb_ids = << "A", "B" >>
    /\ fetch_log = << FALSE, TRUE >>
    /\ \E i \in 1..Len(new_tickets) : Get(new_tickets[i], "client_id", PyNone) = "A"
    /\ Len(final_output) = 1
    /\ final_output[1].client_id = "B"
    /\ final_output[1].ticket_number = "T1"

\* C16: no ticket of the final output has a content, an urgency or a
\* created_at; every one has a ticket_number, a client_id, a client_name, a
\* title, a summary and a priority.
C16_InternalFieldsStripped ==
    \A i \in 1..Len(final_output) :
        /\ DOMAIN final_output[i] \cap {"content", "urgency", "created_at"} = {}
        /\ {"ticket_number", "client_id", "client_name", "title", "summary", "priority"}
              \subseteq DOMAIN final_output[i]

\* A ticket that had a content, an urgency and a created_at when its block
\* was appended has been emitted.
C16_Witness ==
    /\ pc = "done"
    /\ Len(final_output) >= 1
    /\ {"content", "urgency", "created_at"} \subseteq DOMAIN history[emit_log[1].block].merged[1]
    /\ emit_log[1].ticket.created_at = "15.01.24 09:00"
    /\ final_output[1].ticket_number = emit_log[1].ticket.ticket_number

\* The one of the four priorities that p spells when letter case is
\* ignored, PyNone when it spells none.
SpelledPriority(p) ==
    CASE p \in {"urgent", "URGENT", "Urgent"} -> "Urgent"
      [] p \in {"high", "HIGH", "High"} -> "High"
      [] p \in {"medium", "MEDIUM", "Medium"} -> "Medium"
      [] p \in {"low", "LOW", "Low"} -> "Low"
      [] OTHER -> PyNone

\* C17: a fetched ticket is merged with its declared priority when that is
\* one of the four, whatever the oracle suggested, and with the oracle's
\* priority otherwise; a caller-submitted ticket with the priority its
\* declared value spells, letter case ignored, and with the oracle's
\* otherwise; and the priority a ticket is merged with is the one it is
\* emitted with.
C17_DeclaredPriorityWins ==
    /\ pc \in {"map2", "zip2", "score"} =>
          \A i \in 1..Len(valid_tickets) :
              client_tickets[i].priority =
                  IF valid_tickets[i].priority \in Priorities
                  THEN valid_tickets[i].priority
                  ELSE summaries[i].priority
    /\ pc = "score" =>
          \A i \in 1..Len(new_prepared) :
              client_tickets[Len(valid_tickets) + i].priority =
                  IF SpelledPriority(new_prepared[i].priority) # PyNone
                  THEN SpelledPriority(new_prepared[i].priority)
                  ELSE new_summaries[i].priority
    /\ \A i \in 1..Len(emit_log) :
          /\ final_output[i].priority = emit_log[i].ticket.priority
          /\ \E n \in 1..Len(history[emit_log[i].block].merged) :
                history[emit_log[i].block].merged[n] = emit_log[i].ticket

\* The fetched T2, declared "urgent", has the High the oracle suggested,
\* and a caller-submitted ticket declared "high" has High although the
\* oracle suggested Low.
C17_Witness ==
    /\ pc = "score"
    /\ Len(valid_tickets) = 1
    /\ Len(new_prepared) = 1
    /\ valid_tickets[1].priority = "urgent"
    /\ summaries[1].priority = "High"
    /\ client_tickets[1].priority = "High"
    /\ new_prepared[1].priority = "high"
    /\ new_summaries[1].priority = "Low"
    /\ client_tickets[2].priority = "High"

\* The chunks of a list one after the other.
RECURSIVE Concat(_)
Concat(chunks) == IF chunks = << >> THEN << >> ELSE Head(chunks) \o Concat(Tail(chunks))

\* The word count of title and content over the tickets of a chunk.
RECURSIVE ChunkTokens(_)
ChunkTokens(chunk) ==
    IF chunk = << >> THEN 0 ELSE Tokens(Head(chunk)) + ChunkTokens(Tail(chunk))

\* C18: for the merged tickets of a client, the chunks of chunk_tickets put
\* one after the other are the list itself, a chunk of more than one ticket
\* has at most max_tokens words, and a ticket of more than max_tokens words
\* is alone in its chunk.
C18_ChunksPartition ==
    pc = "score" =>
        LET chunks == chunk_tickets(client_tickets)
        IN  /\ Concat(chunks) = client_tickets
            /\ \A c \in 1..Len(chunks) :
                  /\ Len(chunks[c]) > 1 => ChunkTokens(chunks[c]) <= max_tokens
                  /\ (\E i \in 1..Len(chunks[c]) : Tokens(chunks[c][i]) > max_tokens)
                        => Len(chunks[c]) = 1

\* In a request for two clients, a client's short ticket is followed by
\* one of more than max_tokens words: the first chunk is closed by the
\* budget and the long ticket is alone in the second.
C18_Witness ==
    /\ pc = "score"
    /\ Len(cnb_ids) > 1
    /\ Len(client_tickets) = 2
    /\ Tokens(client_tickets[1]) <= max_tokens
    /\ Tokens(client_tickets[2]) > max_tokens
    /\ chunk_tickets(client_tickets) = << << client_tickets[1] >>, << client_tickets[2] >> >>

\* C19: where get_sentiment_score is called, chunk_tickets returns no
\* empty chunk for the merged tickets of the client, and the oracle is
\* asked about no empty group of tickets.
C19_NoEmptyChunk ==
    /\ (pc = "score" /\ Len(cnb_ids) > 1) =>
          \A c \in 1..Len(chunk_tickets(client_tickets)) :
              chunk_tickets(client_tickets)[c] # << >>
    /\ \A c \in 1..Len(sent_log) :
          \A i \in 1..Len(sent_log[c].sizes) : sent_log[c].sizes[i] >= 1

\* The ticket numbers of the records of the payload that have a number and
\* a content, in payload order.
FetchedNumbers ==
    LET fetched == SelectSeq(data,
                       LAMBDA e : /\ IsDict(e)
                                  /\ Truthy(Get(e.dict, "cnb_support_ticket_number", ""))
                                  /\ Truthy(Get(e.dict, "cnb_support_ticket_content", "")))
    IN  [i \in 1..Len(fetched) |-> fetched[i].dict.cnb_support_ticket_number]

\* How many tickets of the sequence s have the ticket number tn.
NumberCount(s, tn) == Cardinality({i \in 1..Len(s) : s[i].ticket_number = tn})

\* The number of tickets of the blocks appended from position j on.
RECURSIVE MergedFrom(_)
MergedFrom(j) ==
    IF j > Len(history) THEN 0 ELSE Len(history[j].merged) + MergedFrom(j + 1)

\* C20: before the sort, the tickets of the client the loop stands at are
\* its fetched records that have a number and a content, under their own
\* numbers, followed by the caller-submitted tickets whose client_id is
\* that identifier, one ticket each, under their own number when they bring
\* one; a block is emitted with the ticket numbers it was appended with,
\* each as often; the output holds the tickets of the appended blocks and
\* nothing else; and every emitted ticket has the identifier of its
\* block's position in cnb_ids as client_id.
C20_TicketsConserved ==
    /\ pc = "score" =>
          /\ Len(client_tickets) = Len(FetchedNumbers) + Len(NewInput)
          /\ \A i \in 1..Len(FetchedNumbers) :
                client_tickets[i].ticket_number = FetchedNumbers[i]
          /\ \A i \in 1..Len(NewInput) :
                "ticket_number" \in DOMAIN NewInput[i]
                    => client_tickets[Len(FetchedNumbers) + i].ticket_number
                         = NewInput[i].ticket_number
          /\ \A i \in 1..Len(client_tickets) : client_tickets[i].client_id = cnb_ids[k]
    /\ pc = "done" =>
          /\ Len(final_output) = MergedFrom(1)
          /\ \A j \in 1..Len(history) :
                \A n \in 1..Len(history[j].merged) :
                    NumberCount(BlockLog(j), history[j].merged[n].ticket_number)
                      = NumberCount(history[j].merged, history[j].merged[n].ticket_number)
          /\ \A i \in 1..Len(final_output) :
                /\ final_output[i].ticket_number = emit_log[i].ticket.ticket_number
                /\ final_output[i].client_id = cnb_ids[history[emit_log[i].block].k]
                /\ \E c \in 1..Len(cnb_ids) : final_output[i].client_id = cnb_ids[c]

\* A request for A alone brought a caller-submitted ticket of A and one
\* without client_id: the ticket of A is the whole output.
C20_Witness ==
    /\ pc = "done"
    /\ cnb_ids = << "A" >>
    /\ Len(new_tickets) = 2
    /\ \E i \in 1..2 : "client_id" \notin DOMAIN new_tickets[i]
    /\ \E i \in 1..2 : Get(new_tickets[i], "client_id", PyNone) = "A"
    /\ Len(final_output) = 1
    /\ final_output[1].client_id = "A"
    /\ final_output[1].title = "login"

====
